---- MODULE Spec2Model ----
(***************************************************************************)
(* The Sentry certificate-signing server (package server): the             *)
(* SignCertificate gRPC method and the signCertificate pipeline behind it. *)
(* One handler runs per request; the validator registry, the default       *)
(* validator and the CA handle are set once and only read.                 *)
(***************************************************************************)
EXTENDS Integers, Sequences, FiniteSets, TLC

\* ------------------------------------------------------------------ bounds
\* Number of request handlers that may run concurrently.
MaxReq == 2
\* Longest certificate chain the CA returns.
MaxChain == 2

\* --------------------------------------------------------------- data types
\* sentryv1pb.SignCertificateRequest_TokenValidator: a protobuf enum, a number
\* on the wire; String() gives its name.
KindNames == <<"UNKNOWN", "INSECURE", "KUBERNETES", "JWKS">>

UNKNOWN == 0

Kinds == 0 .. (Len(KindNames) - 1)

String(k) ==
    IF k + 1 \in DOMAIN KindNames THEN KindNames[k + 1] ELSE ToString(k)

\* The kind of a name.
Kind(name) == CHOOSE k \in Kinds : String(k) = name

Requests == 1 .. MaxReq

Namespaces == {"dapr-system", "default"}

Ids == {"dapr-injector", "dapr-operator", "myapp"}

\* Optional values (a Go pointer or error that may be nil).
Nil == <<>>

Some(x) == <<x>>

\* gRPC status errors, status.Error(code, msg).
Status(code, msg) == [code |-> code, msg |-> msg]

\* The bytes of req.CertificateSigningRequest, by what the decoders make of
\* them: whether they hold a PEM block, the block's type, whether the block's
\* bytes parse as PKCS#10, the request's public key and the key that signed it.
BlockTypes == {"CERTIFICATE REQUEST", "CERTIFICATE", "EC PRIVATE KEY"}

Keys == {"pk1", "pk2", "pk3"}

NoDER == [parses |-> FALSE, PublicKey |-> "", signedBy |-> ""]

NoCSR == [PublicKey |-> "", SignatureAlgorithm |-> "", signedBy |-> ""]

CSRBytes ==
    {[pem |-> FALSE, Type |-> "", Bytes |-> NoDER]}
    \cup {[pem |-> TRUE, Type |-> t, Bytes |-> NoDER] : t \in BlockTypes}
    \cup {[pem |-> TRUE, Type |-> t,
           Bytes |-> [parses |-> TRUE, PublicKey |-> "pk1", signedBy |-> s]] :
             t \in BlockTypes, s \in Keys}

\* The requests a client may send.
AllRequests ==
    [TokenValidator : Kinds, Namespace : Namespaces, Id : Ids,
     CertificateSigningRequest : CSRBytes]

NoRequest ==
    [TokenValidator |-> UNKNOWN, Namespace |-> "", Id |-> "",
     CertificateSigningRequest |-> [pem |-> FALSE, Type |-> "", Bytes |-> NoDER]]

\* What a Validator may answer: a trust domain, or an error.
TrustDomains == [name : {"public", "cluster.local"}]

NoTrustDomain == [name |-> ""]

ValidateErrors == {"token rejected"}

\* The underlying errors of the CA and of the chain encoder.
SignCauses == {"ca: issuer key unavailable", "ca: context deadline exceeded"}

EncodeCauses == {"pem: nil certificate", "pem: write failed"}

\* x509 certificates, by their NotAfter; the CA's chains are leaf first.
Expiries == {1, 2}

Certificates == [NotAfter : Expiries]

RECURSIVE SeqsOfLen(_, _)
SeqsOfLen(S, n) ==
    IF n = 0 THEN {<<>>}
    ELSE {Append(s, x) : s \in SeqsOfLen(S, n - 1), x \in S}

Chains == UNION {SeqsOfLen(Certificates, n) : n \in 1 .. MaxChain}

TrustAnchors == "trust-anchors.pem"

\* -------------------------------------------------------------------- state
VARIABLES
    vals,              \* server.vals: the registered validator kinds (map keys)
    defaultValidator,  \* server.defaultValidator
    currentNamespace,  \* security.CurrentNamespace()
    pc,                \* where each handler is in the pipeline
    req,               \* the request each handler was given
    validator,         \* signCertificate's local: the effective validator kind
    trustDomain,       \* what Validate returned
    csr,               \* the parsed certificate request
    dns,               \* the SAN list
    chain,             \* what ca.SignIdentity returned
    chainPEM,          \* what EncodeX509Chain returned
    resp,              \* signCertificate's response (or nil)
    err,               \* signCertificate's error (or nil)
    reply,             \* what SignCertificate returned to the caller
    received,          \* monitoring.CertSignRequestReceived count
    succeeded,         \* monitoring.CertSignSucceed count
    failed,            \* monitoring.CertSignFailed counts, by tag
    validateCalls,     \* per request, the kinds whose Validate was called
    csrSteps,          \* per request, the CSR checks that ran
    signCalls,         \* per request, the ca.SignRequests handed to the CA
    encodeCalls,       \* per request, the chains handed to EncodeX509Chain
    failedAt,          \* per request, the state the pipeline failed in
    logged,            \* per request, the underlying error written to the log
    startPc,           \* where Start is
    startRet,          \* what Start returned (or nil while it runs)
    servePc,           \* where the goroutine running srv.Serve is
    serveErr,          \* what srv.Serve returned
    errCh,             \* the buffered channel errCh
    cancelled,         \* ctx.Done() is closed
    quit,              \* the gRPC server was told to stop
    errSent,           \* every value sent on errCh, in order
    errRead,           \* every value received from errCh, in order
    environ,           \* the sidecar's environment variables
    certChain          \* what GetCertChain returned (or nil before the call)

config == <<vals, defaultValidator, currentNamespace>>

locals == <<validator, trustDomain, csr, dns, chain, chainPEM, resp, err>>

counters == <<received, succeeded, failed>>

calls == <<validateCalls, csrSteps, signCalls, encodeCalls>>

lifecycle ==
    <<startPc, startRet, servePc, serveErr, errCh, cancelled, quit, errSent,
      errRead>>

handlers == <<pc, req, locals, reply, counters, calls, failedAt, logged>>

security == <<environ, certChain>>

vars == <<config, handlers, lifecycle, security>>

\* ------------------------------------------------------- validator registry
\* Mutant: an unregistered requested kind falls back to the default.
EffectiveValidatorFallback(requested, default) ==
    IF requested # UNKNOWN /\ requested \in vals THEN requested ELSE default

\* signCertificate, lines 110-113: the requested kind when one is given, else
\* the configured default.
EffectiveValidator(requested, default) ==
    IF requested # UNKNOWN /\ String(requested) # "" THEN requested ELSE default

\* Mutant: the registry lookup is left out.
ValidatorErrorNoLookup(v, registered) ==
    IF v = UNKNOWN
    THEN Some(Status("InvalidArgument",
                     "a validator name must be specified in this environment"))
    ELSE Nil

\* Mutant: an unregistered kind is reported under another status code.
ValidatorErrorNotFound(v, registered) ==
    IF v = UNKNOWN
    THEN Some(Status("InvalidArgument",
                     "a validator name must be specified in this environment"))
    ELSE IF v \notin registered
    THEN Some(Status("NotFound", "the requested validator is not enabled"))
    ELSE Nil

\* signCertificate, lines 114-119: the error of validator resolution, or nil.
ValidatorError(v, registered) ==
    IF v = UNKNOWN
    THEN Some(Status("InvalidArgument",
                     "a validator name must be specified in this environment"))
    ELSE IF v \notin registered
    THEN Some(Status("InvalidArgument", "the requested validator is not enabled"))
    ELSE Nil

\* ------------------------------------------------------------- CSR inspector
\* pem.Decode: the first PEM block of the bytes, or nil.
pemDecode(bytes) ==
    IF bytes.pem THEN Some([Type |-> bytes.Type, Bytes |-> bytes.Bytes]) ELSE Nil

\* x509.ParseCertificateRequest: the request, or the parse error's text.
ParseCertificateRequest(der) ==
    IF der.parses
    THEN [csr |-> [PublicKey |-> der.PublicKey,
                   SignatureAlgorithm |-> "ECDSA-SHA256",
                   signedBy |-> der.signedBy],
          err |-> ""]
    ELSE [csr |-> NoCSR, err |-> "asn1: syntax error"]

\* Mutant: the signature is not verified.
CheckSignatureSkipped(c) == TRUE

\* csr.CheckSignature() = nil: the request is signed by the key it carries.
CheckSignature(c) == c.signedBy = c.PublicKey

\* Mutant: the legacy block type is refused.
OnlyCertificateRequest == {"CERTIFICATE REQUEST"}

\* signCertificate, line 135: the PEM block types taken for a CSR.
AcceptedBlockTypes == {"CERTIFICATE REQUEST", "CERTIFICATE"}

\* signCertificate, lines 128-148: the checks that run on the CSR bytes, in
\* order, the parsed request and the error (or nil).
InspectCSR(bytes) ==
    LET der == pemDecode(bytes) IN
    IF der = Nil
    THEN [steps |-> <<"decode">>, csr |-> NoCSR,
          err |-> Some(Status("InvalidArgument",
                              "invalid certificate signing request"))]
    ELSE IF der[1].Type \notin AcceptedBlockTypes
    THEN [steps |-> <<"decode", "type">>, csr |-> NoCSR,
          err |-> Some(Status("InvalidArgument",
                              "invalid certificate signing request"))]
    ELSE LET p == ParseCertificateRequest(der[1].Bytes) IN
         IF p.err # ""
         THEN [steps |-> <<"decode", "type", "parse">>, csr |-> NoCSR,
               err |-> Some(Status("InvalidArgument",
                       "failed to parse certificate signing request: " \o p.err))]
         ELSE IF ~CheckSignature(p.csr)
         THEN [steps |-> <<"decode", "type", "parse", "signature">>,
               csr |-> NoCSR,
               err |-> Some(Status("InvalidArgument", "invalid signature"))]
         ELSE [steps |-> <<"decode", "type", "parse", "signature">>,
               csr |-> p.csr, err |-> Nil]

\* Mutant: a Validate error is reported as a bad request.
ValidateErrorInvalidArgument(e) == Status("InvalidArgument", e)

\* signCertificate, line 125: the status of a Validate error.
ValidateError(e) == Status("PermissionDenied", e)

\* ---------------------------------------------------------- identity resolver
\* Mutant: the reserved IDs are matched in any namespace.
SANAnyNamespace(namespace, id, current) ==
    IF id = "dapr-injector"
    THEN <<"dapr-sidecar-injector." \o namespace \o ".svc">>
    ELSE IF id = "dapr-operator"
    THEN <<"dapr-webhook." \o namespace \o ".svc">>
    ELSE <<id \o "." \o namespace \o ".svc.cluster.local">>

\* signCertificate, lines 155-163: the DNS SAN list.
SAN(namespace, id, current) ==
    IF namespace = current /\ id = "dapr-injector"
    THEN <<"dapr-sidecar-injector." \o namespace \o ".svc">>
    ELSE IF namespace = current /\ id = "dapr-operator"
    THEN <<"dapr-webhook." \o namespace \o ".svc">>
    ELSE <<id \o "." \o namespace \o ".svc.cluster.local">>

\* spiffeid.TrustDomain.String()
TrustDomainString(td) == td.name

\* Mutant: the trust domain is kept in a field all handlers share, here the
\* one the latest-numbered authenticated handler wrote.
SignRequestSharedTrustDomain(c, td, q, sans) ==
    [PublicKey |-> c.PublicKey,
     SignatureAlgorithm |-> c.SignatureAlgorithm,
     TrustDomain |->
        LET authed == {r \in DOMAIN trustDomain : trustDomain[r] # [name |-> ""]}
            last == CHOOSE r \in authed : \A o \in authed : o <= r
        IN  trustDomain[last].name,
     Namespace |-> q.Namespace,
     AppID |-> q.Id,
     DNS |-> sans]

\* signCertificate, lines 165-172: the ca.SignRequest handed to the CA.
SignRequest(c, td, q, sans) ==
    [PublicKey |-> c.PublicKey,
     SignatureAlgorithm |-> c.SignatureAlgorithm,
     TrustDomain |-> TrustDomainString(td),
     Namespace |-> q.Namespace,
     AppID |-> q.Id,
     DNS |-> sans]

\* Mutant: the CA's failure is reported as unavailability.
SignErrorUnavailable == Status("Unavailable", "failed to sign certificate")

\* signCertificate, line 175: the status of a CA failure.
SignError == Status("Internal", "failed to sign certificate")

\* signCertificate, line 181: the status of an encoding failure.
EncodeError == Status("Internal", "failed to encode certificate chain")

\* Mutant: the CA's error text is appended to the message.
SignFailureLeaksCause(cause) ==
    Status("Internal", "failed to sign certificate: " \o cause)

\* signCertificate, lines 173-176: the CA's error is logged; the status
\* returned does not carry it.
SignFailure(cause) == SignError

\* signCertificate, lines 179-182: the encoder's error is logged; the status
\* returned does not carry it.
EncodeFailure(cause) == EncodeError

\* ------------------------------------------------------------------ response
\* secpem.EncodeX509Chain on success: one PEM block per certificate, in order.
EncodedChain(certs) ==
    [i \in 1 .. Len(certs) |-> [Type |-> "CERTIFICATE", Bytes |-> certs[i]]]

\* timestamppb.New
Timestamp(t) == [seconds |-> t]

\* Mutant: the expiry of the chain's last certificate.
ValidUntilOfLast(certs) == Timestamp(certs[Len(certs)].NotAfter)

\* signCertificate, line 189: chain[0].NotAfter (Go indexes from 0).
ValidUntil(certs) == Timestamp(certs[1].NotAfter)

\* signCertificate, lines 184-190.
Response(pemBytes, certs) ==
    [WorkloadCertificate |-> pemBytes,
     TrustChainCertificates |-> <<TrustAnchors>>,
     ValidUntil |-> ValidUntil(certs)]

\* SignCertificate, line 102: the tag of the failure counter.
FailedTag(state) == "sign"

PipelineStates ==
    <<"Received", "ValidatorResolved", "Authenticated", "CSRValidated",
      "IdentityResolved", "Signed", "Encoded", "Responded">>

Tags == {"sign"} \cup {PipelineStates[i] : i \in DOMAIN PipelineStates}

\* ----------------------------------------------------------------- handlers
\* SignCertificate, lines 98-100: count the request, call signCertificate.
Receive(r, inputs) ==
    /\ pc[r] = "idle"
    /\ \E q \in inputs : req' = [req EXCEPT ![r] = q]
    /\ received' = received + 1
    /\ pc' = [pc EXCEPT ![r] = "Received"]
    /\ UNCHANGED <<config, locals, reply, succeeded, failed, calls, failedAt>>
    /\ UNCHANGED <<logged, lifecycle, security>>

\* signCertificate, lines 110-119: resolve the validator and look it up.
ResolveValidator(r) ==
    /\ pc[r] = "Received"
    /\ LET v == EffectiveValidator(req[r].TokenValidator, defaultValidator)
           e == ValidatorError(v, vals)
       IN  /\ validator' = [validator EXCEPT ![r] = v]
           /\ err' = [err EXCEPT ![r] = e]
           /\ pc' = [pc EXCEPT ![r] =
                       IF e = Nil THEN "ValidatorResolved" ELSE "Failed"]
           /\ failedAt' = [failedAt EXCEPT ![r] =
                       IF e = Nil THEN @ ELSE pc[r]]
    /\ UNCHANGED <<config, req, trustDomain, csr, dns, chain, chainPEM, resp,
                   reply, counters, calls>>
    /\ UNCHANGED <<logged, lifecycle, security>>

\* Mutant: a rejected request is handed to the validator again.
ValidateRetries(r, answers) ==
    /\ pc[r] = "ValidatorResolved"
    /\ validateCalls' = [validateCalls EXCEPT ![r] = Append(@, validator[r])]
    /\ \/ \E td \in answers :
            /\ trustDomain' = [trustDomain EXCEPT ![r] = td]
            /\ pc' = [pc EXCEPT ![r] = "Authenticated"]
            /\ UNCHANGED <<err, failedAt>>
       \/ \E e \in ValidateErrors :
            /\ Len(validateCalls[r]) = 0
            /\ UNCHANGED <<pc, err, failedAt, trustDomain>>
       \/ \E e \in ValidateErrors :
            /\ Len(validateCalls[r]) > 0
            /\ err' = [err EXCEPT ![r] = Some(ValidateError(e))]
            /\ pc' = [pc EXCEPT ![r] = "Failed"]
            /\ failedAt' = [failedAt EXCEPT ![r] = pc[r]]
            /\ UNCHANGED trustDomain
    /\ UNCHANGED <<config, req, validator, csr, dns, chain, chainPEM, resp,
                   reply, counters, csrSteps, signCalls, encodeCalls>>
    /\ UNCHANGED <<logged, lifecycle, security>>

\* Mutant: the CSR is inspected before the token is presented, and a bad CSR
\* is reported first.
ValidateAfterCSR(r, answers) ==
    /\ pc[r] = "ValidatorResolved"
    /\ LET i == InspectCSR(req[r].CertificateSigningRequest) IN
       IF i.err # Nil
       THEN /\ err' = [err EXCEPT ![r] = i.err]
            /\ pc' = [pc EXCEPT ![r] = "Failed"]
            /\ failedAt' = [failedAt EXCEPT ![r] = pc[r]]
            /\ UNCHANGED <<trustDomain, validateCalls>>
       ELSE /\ validateCalls' = [validateCalls EXCEPT ![r] = Append(@, validator[r])]
            /\ \/ \E td \in answers :
                    /\ trustDomain' = [trustDomain EXCEPT ![r] = td]
                    /\ pc' = [pc EXCEPT ![r] = "Authenticated"]
                    /\ UNCHANGED <<err, failedAt>>
               \/ \E e \in ValidateErrors :
                    /\ err' = [err EXCEPT ![r] = Some(ValidateError(e))]
                    /\ pc' = [pc EXCEPT ![r] = "Failed"]
                    /\ failedAt' = [failedAt EXCEPT ![r] = pc[r]]
                    /\ UNCHANGED trustDomain
    /\ UNCHANGED <<config, req, validator, csr, dns, chain, chainPEM, resp,
                   reply, counters, csrSteps, signCalls, encodeCalls>>
    /\ UNCHANGED <<logged, lifecycle, security>>

\* signCertificate, lines 123-126: s.vals[validator].Validate(ctx, req).  The
\* validator answers with a trust domain or with an error.
Validate(r, answers) ==
    /\ pc[r] = "ValidatorResolved"
    /\ validateCalls' = [validateCalls EXCEPT ![r] = Append(@, validator[r])]
    /\ \/ \E td \in answers :
            /\ trustDomain' = [trustDomain EXCEPT ![r] = td]
            /\ pc' = [pc EXCEPT ![r] = "Authenticated"]
            /\ UNCHANGED <<err, failedAt>>
       \/ \E e \in ValidateErrors :
            /\ err' = [err EXCEPT ![r] = Some(ValidateError(e))]
            /\ pc' = [pc EXCEPT ![r] = "Failed"]
            /\ failedAt' = [failedAt EXCEPT ![r] = pc[r]]
            /\ UNCHANGED trustDomain
    /\ UNCHANGED <<config, req, validator, csr, dns, chain, chainPEM, resp,
                   reply, counters, csrSteps, signCalls, encodeCalls>>
    /\ UNCHANGED <<logged, lifecycle, security>>

\* signCertificate, lines 128-148: decode, type-check, parse and verify the CSR.
ValidateCSR(r) ==
    /\ pc[r] = "Authenticated"
    /\ LET i == InspectCSR(req[r].CertificateSigningRequest)
       IN  /\ csrSteps' = [csrSteps EXCEPT ![r] = @ \o i.steps]
           /\ csr' = [csr EXCEPT ![r] = i.csr]
           /\ err' = [err EXCEPT ![r] = i.err]
           /\ pc' = [pc EXCEPT ![r] =
                       IF i.err = Nil THEN "CSRValidated" ELSE "Failed"]
           /\ failedAt' = [failedAt EXCEPT ![r] =
                       IF i.err = Nil THEN @ ELSE pc[r]]
    /\ UNCHANGED <<config, req, validator, trustDomain, dns, chain, chainPEM,
                   resp, reply, counters, validateCalls, signCalls, encodeCalls>>
    /\ UNCHANGED <<logged, lifecycle, security>>

\* Mutant: a reserved workload ID outside the current namespace is refused.
ResolveIdentityRefusesReserved(r) ==
    /\ pc[r] = "CSRValidated"
    /\ IF /\ req[r].Namespace # currentNamespace
          /\ req[r].Id \in {"dapr-injector", "dapr-operator"}
       THEN /\ err' = [err EXCEPT ![r] =
                         Some(Status("InvalidArgument", "reserved workload ID"))]
            /\ pc' = [pc EXCEPT ![r] = "Failed"]
            /\ failedAt' = [failedAt EXCEPT ![r] = pc[r]]
            /\ UNCHANGED dns
       ELSE /\ dns' = [dns EXCEPT ![r] =
                         SAN(req[r].Namespace, req[r].Id, currentNamespace)]
            /\ pc' = [pc EXCEPT ![r] = "IdentityResolved"]
            /\ UNCHANGED <<err, failedAt>>
    /\ UNCHANGED <<config, req, validator, trustDomain, csr, chain, chainPEM,
                   resp, reply, counters, calls>>
    /\ UNCHANGED <<logged, lifecycle, security>>

\* signCertificate, lines 155-163: derive the DNS SAN list.
ResolveIdentity(r) ==
    /\ pc[r] = "CSRValidated"
    /\ dns' = [dns EXCEPT ![r] =
                 SAN(req[r].Namespace, req[r].Id, currentNamespace)]
    /\ pc' = [pc EXCEPT ![r] = "IdentityResolved"]
    /\ UNCHANGED <<config, req, validator, trustDomain, csr, chain, chainPEM,
                   resp, err, reply, counters, calls, failedAt>>
    /\ UNCHANGED <<logged, lifecycle, security>>

\* signCertificate, lines 165-176: s.ca.SignIdentity(ctx, &ca.SignRequest{...}).
\* The CA answers with a chain or with an error.
SignIdentity(r, chains, causes) ==
    /\ pc[r] = "IdentityResolved"
    /\ signCalls' = [signCalls EXCEPT ![r] =
                       Append(@, SignRequest(csr[r], trustDomain[r], req[r], dns[r]))]
    /\ \/ \E c \in chains :
            /\ chain' = [chain EXCEPT ![r] = c]
            /\ pc' = [pc EXCEPT ![r] = "Signed"]
            /\ UNCHANGED <<err, failedAt, logged>>
       \/ \E cause \in causes :
            /\ logged' = [logged EXCEPT ![r] = cause]
            /\ err' = [err EXCEPT ![r] = Some(SignFailure(cause))]
            /\ pc' = [pc EXCEPT ![r] = "Failed"]
            /\ failedAt' = [failedAt EXCEPT ![r] = pc[r]]
            /\ UNCHANGED chain
    /\ UNCHANGED <<config, req, validator, trustDomain, csr, dns, chainPEM,
                   resp, reply, counters, validateCalls, csrSteps, encodeCalls>>
    /\ UNCHANGED <<lifecycle, security>>

\* signCertificate, lines 178-182: secpem.EncodeX509Chain(chain).
EncodeChain(r, causes) ==
    /\ pc[r] = "Signed"
    /\ encodeCalls' = [encodeCalls EXCEPT ![r] = Append(@, chain[r])]
    /\ \/ /\ chainPEM' = [chainPEM EXCEPT ![r] = EncodedChain(chain[r])]
          /\ pc' = [pc EXCEPT ![r] = "Encoded"]
          /\ UNCHANGED <<err, failedAt, logged>>
       \/ \E cause \in causes :
            /\ logged' = [logged EXCEPT ![r] = cause]
            /\ err' = [err EXCEPT ![r] = Some(EncodeFailure(cause))]
            /\ pc' = [pc EXCEPT ![r] = "Failed"]
            /\ failedAt' = [failedAt EXCEPT ![r] = pc[r]]
            /\ UNCHANGED chainPEM
    /\ UNCHANGED <<config, req, validator, trustDomain, csr, dns, chain, resp,
                   reply, counters, validateCalls, csrSteps, signCalls>>
    /\ UNCHANGED <<lifecycle, security>>

\* signCertificate, lines 184-190: assemble the response.  chain[0] of an empty
\* chain is a run-time panic.
Respond(r) ==
    /\ pc[r] = "Encoded"
    /\ IF chain[r] = <<>>
       THEN /\ pc' = [pc EXCEPT ![r] = "Panicked"]
            /\ UNCHANGED resp
       ELSE /\ resp' = [resp EXCEPT ![r] = Some(Response(chainPEM[r], chain[r]))]
            /\ pc' = [pc EXCEPT ![r] = "Responded"]
    /\ UNCHANGED <<config, req, validator, trustDomain, csr, dns, chain,
                   chainPEM, err, reply, counters, calls, failedAt>>
    /\ UNCHANGED <<logged, lifecycle, security>>

\* Mutant: the failure branch does not return and also counts a success.
ReturnFallsThrough(r) ==
    /\ pc[r] \in {"Responded", "Failed"}
    /\ reply[r] = Nil
    /\ IF err[r] # Nil
       THEN /\ failed' = [failed EXCEPT ![FailedTag(failedAt[r])] = @ + 1]
            /\ succeeded' = succeeded + 1
            /\ reply' = [reply EXCEPT ![r] = Some([resp |-> Nil, err |-> err[r]])]
       ELSE /\ succeeded' = succeeded + 1
            /\ reply' = [reply EXCEPT ![r] = Some([resp |-> resp[r], err |-> Nil])]
            /\ UNCHANGED failed
    /\ UNCHANGED <<config, pc, req, locals, received, calls, failedAt>>
    /\ UNCHANGED <<logged, lifecycle, security>>

\* SignCertificate, lines 101-106: count the outcome and return it.
Return(r) ==
    /\ pc[r] \in {"Responded", "Failed"}
    /\ reply[r] = Nil
    /\ IF err[r] # Nil
       THEN /\ failed' = [failed EXCEPT ![FailedTag(failedAt[r])] = @ + 1]
            /\ reply' = [reply EXCEPT ![r] = Some([resp |-> Nil, err |-> err[r]])]
            /\ UNCHANGED succeeded
       ELSE /\ succeeded' = succeeded + 1
            /\ reply' = [reply EXCEPT ![r] = Some([resp |-> resp[r], err |-> Nil])]
            /\ UNCHANGED failed
    /\ UNCHANGED <<config, pc, req, locals, received, calls, failedAt>>
    /\ UNCHANGED <<logged, lifecycle, security>>

\* One request handler (a goroutine of the gRPC server), in an environment:
\* the requests clients send, the trust domains validators answer with and the
\* chains the CA answers with.
Handler(r, env) ==
    \/ Receive(r, env.requests)
    \/ ResolveValidator(r)
    \/ Validate(r, env.trustDomains)
    \/ ValidateCSR(r)
    \/ ResolveIdentity(r)
    \/ SignIdentity(r, env.chains, env.signCauses)
    \/ EncodeChain(r, env.encodeCauses)
    \/ Respond(r)
    \/ Return(r)

\* ------------------------------------------------------------------ security
\* consts.TrustAnchorsEnvVar, consts.CertChainEnvVar, consts.CertKeyEnvVar.
TrustAnchorsEnvVar == "DAPR_TRUST_ANCHORS"

CertChainEnvVar == "DAPR_CERT_CHAIN"

CertKeyEnvVar == "DAPR_CERT_KEY"

EnvVars == {TrustAnchorsEnvVar, CertChainEnvVar, CertKeyEnvVar}

\* What os.Getenv gives for a variable: "" when it is unset or empty.
EnvValues == {"", "pem-1", "pem-2", "pem-3", "pem-4"}

\* GetCertChain, security.go lines 35-53: the chain and the error returned in
\* an environment.  The third test is of cert, as in the source (line 45).
GetCertChain(env) ==
    LET trustAnchors == env[TrustAnchorsEnvVar] IN
    IF trustAnchors = ""
    THEN [chain |-> <<>>,
          err |-> "couldn't find trust anchors in environment variable "
                     \o TrustAnchorsEnvVar]
    ELSE LET cert == env[CertChainEnvVar] IN
         IF cert = ""
         THEN [chain |-> <<>>,
               err |-> "couldn't find cert chain in environment variable "
                          \o CertChainEnvVar]
         ELSE LET key == env[CertKeyEnvVar] IN
              IF cert = ""
              THEN [chain |-> <<>>,
                    err |-> "couldn't find cert key in environment variable "
                               \o CertKeyEnvVar]
              ELSE [chain |-> <<[RootCA |-> trustAnchors, Cert |-> cert,
                                 Key |-> key]>>,
                    err |-> "nil"]

\* The sidecar calls GetCertChain.
CallGetCertChain ==
    /\ certChain = <<>>
    /\ certChain' = <<GetCertChain(environ)>>
    /\ UNCHANGED <<environ, config, handlers, lifecycle>>

\* The sidecar with its three variables set and GetCertChain not called.
SidecarIdle ==
    /\ environ = [v \in EnvVars |-> "pem-1"]
    /\ certChain = <<>>

\* ------------------------------------------------------------ specifications
\* Start, lines 74-78: the server's configuration, fixed at construction.
AllConfigs ==
    [vals : SUBSET Kinds, defaultValidator : Kinds, currentNamespace : Namespaces]

InitHandlers(configs) ==
    /\ \E c \in configs :
         /\ vals = c.vals
         /\ defaultValidator = c.defaultValidator
         /\ currentNamespace = c.currentNamespace
    /\ pc = [r \in Requests |-> "idle"]
    /\ req = [r \in Requests |-> NoRequest]
    /\ validator = [r \in Requests |-> UNKNOWN]
    /\ trustDomain = [r \in Requests |-> NoTrustDomain]
    /\ csr = [r \in Requests |-> NoCSR]
    /\ dns = [r \in Requests |-> <<>>]
    /\ chain = [r \in Requests |-> <<>>]
    /\ chainPEM = [r \in Requests |-> <<>>]
    /\ resp = [r \in Requests |-> Nil]
    /\ err = [r \in Requests |-> Nil]
    /\ reply = [r \in Requests |-> Nil]
    /\ received = 0
    /\ succeeded = 0
    /\ failed = [t \in Tags |-> 0]
    /\ validateCalls = [r \in Requests |-> <<>>]
    /\ csrSteps = [r \in Requests |-> <<>>]
    /\ signCalls = [r \in Requests |-> <<>>]
    /\ encodeCalls = [r \in Requests |-> <<>>]
    /\ failedAt = [r \in Requests |-> ""]
    /\ logged = [r \in Requests |-> ""]

\* The server up and serving: Start waits for the cancellation, the goroutine
\* is in srv.Serve.
Serving ==
    /\ startPc = "waitCtx"
    /\ startRet = Nil
    /\ servePc = "serving"
    /\ serveErr = ""
    /\ errCh = <<>>
    /\ cancelled = FALSE
    /\ quit = FALSE
    /\ errSent = <<>>
    /\ errRead = <<>>

InitWith(configs) == InitHandlers(configs) /\ Serving /\ SidecarIdle

\* Spec: one request, under every configuration, with every request content
\* and every answer of the collaborators.
AllAnswers ==
    [requests |-> AllRequests, trustDomains |-> TrustDomains, chains |-> Chains,
     signCauses |-> SignCauses, encodeCauses |-> EncodeCauses]

FirstRequest == CHOOSE r \in Requests : TRUE

Init == InitWith(AllConfigs)

Next == Handler(FirstRequest, AllAnswers)

Spec == Init /\ [][Next]_vars

\* SpecConcurrent: MaxReq handlers interleaved step by step, under one
\* configuration (KUBERNETES registered, no default) with requests that take
\* every path of the pipeline: three validator kinds (none, registered,
\* unregistered), two identities, a CSR that is not PEM and a valid one.
ConcurrentConfigs ==
    {c \in AllConfigs :
        /\ c.vals = {Kind("KUBERNETES")}
        /\ c.defaultValidator = UNKNOWN
        /\ c.currentNamespace = "dapr-system"}

ConcurrentRequests ==
    {q \in AllRequests :
        /\ q.TokenValidator \in {UNKNOWN, Kind("KUBERNETES"), Kind("JWKS")}
        /\ <<q.Namespace, q.Id>> \in
              {<<"dapr-system", "dapr-injector">>, <<"default", "myapp">>}
        /\ \/ ~q.CertificateSigningRequest.pem
           \/ /\ q.CertificateSigningRequest.Type = "CERTIFICATE REQUEST"
              /\ q.CertificateSigningRequest.Bytes.parses
              /\ q.CertificateSigningRequest.Bytes.signedBy = "pk1"}

ConcurrentAnswers ==
    [requests |-> ConcurrentRequests, trustDomains |-> TrustDomains,
     chains |-> {<<[NotAfter |-> 1]>>},
     signCauses |-> {"ca: issuer key unavailable"},
     encodeCauses |-> {"pem: write failed"}]

InitConcurrent == InitWith(ConcurrentConfigs)

NextConcurrent == \E r \in Requests : Handler(r, ConcurrentAnswers)

SpecConcurrent == InitConcurrent /\ [][NextConcurrent]_vars

\* ---------------------------------------------------------------- lifecycle
\* Errors are their texts; NoError is Go's nil error.
NoError == "nil"

\* Start, line 68.
ListenError == "could not listen on port: address already in use"

\* grpc.ErrServerStopped: what Serve returns when the server was stopped
\* before Serve was called.
ErrServerStopped == "grpc: the server has been stopped"

\* A permanent failure of the listener's Accept, which Serve returns.
AcceptErrors == {"accept: too many open files"}

\* Start, line 81: make(chan error, 1).
ErrChCap == 1

\* Start, lines 84-88: what the goroutine sends for what Serve returned.
ServeResult(e) == IF e = NoError THEN NoError ELSE "failed to serve: " \o e

\* No handler is between its entry and its return.
Drained == \A r \in Requests : pc[r] = "idle" \/ reply[r] # Nil

\* Start, lines 66-89: bind the port; on success create the server and spawn
\* the goroutine that serves.
Listen ==
    /\ startPc = "listen"
    /\ \/ /\ startPc' = "returned"
          /\ startRet' = <<ListenError>>
          /\ UNCHANGED servePc
       \/ /\ startPc' = "waitCtx"
          /\ servePc' = "spawned"
          /\ UNCHANGED startRet
    /\ UNCHANGED <<serveErr, errCh, cancelled, quit, errSent, errRead>>
    /\ UNCHANGED <<config, handlers, security>>

\* Start, line 84: the goroutine calls srv.Serve, which returns
\* ErrServerStopped at once when the server was stopped already.
Serve ==
    /\ servePc = "spawned"
    /\ IF quit
       THEN /\ servePc' = "serveReturned"
            /\ serveErr' = ErrServerStopped
       ELSE /\ servePc' = "serving"
            /\ UNCHANGED serveErr
    /\ UNCHANGED <<startPc, startRet, errCh, cancelled, quit, errSent, errRead>>
    /\ UNCHANGED <<config, handlers, security>>

\* Start, line 84: srv.Serve returns an error of its own (the listener failed).
ServeFails ==
    /\ servePc = "serving"
    /\ ~quit
    /\ \E e \in AcceptErrors : serveErr' = e
    /\ servePc' = "serveReturned"
    /\ UNCHANGED <<startPc, startRet, errCh, cancelled, quit, errSent, errRead>>
    /\ UNCHANGED <<config, handlers, security>>

\* Start, line 84: srv.Serve returns nil after the server was told to stop.
ServeStops ==
    /\ servePc = "serving"
    /\ quit
    /\ serveErr' = NoError
    /\ servePc' = "serveReturned"
    /\ UNCHANGED <<startPc, startRet, errCh, cancelled, quit, errSent, errRead>>
    /\ UNCHANGED <<config, handlers, security>>

\* Mutant: the error branch sends and does not return, so that the goroutine
\* goes on to send nil as well.
SendErrFallsThrough ==
    /\ servePc = "serveReturned"
    /\ Len(errCh) < ErrChCap
    /\ errCh' = Append(errCh, ServeResult(serveErr))
    /\ errSent' = Append(errSent, ServeResult(serveErr))
    /\ IF serveErr # NoError
       THEN /\ serveErr' = NoError
            /\ UNCHANGED servePc
       ELSE /\ servePc' = "done"
            /\ UNCHANGED serveErr
    /\ UNCHANGED <<startPc, startRet, cancelled, quit, errRead>>
    /\ UNCHANGED <<config, handlers, security>>

\* Start, lines 84-88: the goroutine sends its result on errCh and ends.  A
\* send on a full channel blocks.
SendErr ==
    /\ servePc = "serveReturned"
    /\ Len(errCh) < ErrChCap
    /\ errCh' = Append(errCh, ServeResult(serveErr))
    /\ errSent' = Append(errSent, ServeResult(serveErr))
    /\ servePc' = "done"
    /\ UNCHANGED <<startPc, startRet, serveErr, cancelled, quit, errRead>>
    /\ UNCHANGED <<config, handlers, security>>

\* The caller of Start cancels the context.
Cancel ==
    /\ ~cancelled
    /\ cancelled' = TRUE
    /\ UNCHANGED <<startPc, startRet, servePc, serveErr, errCh, quit, errSent,
                   errRead>>
    /\ UNCHANGED <<config, handlers, security>>

\* Mutant: Start waits for the context or for the goroutine's result,
\* whichever comes first.
CtxDoneOrResult ==
    /\ startPc = "waitCtx"
    /\ cancelled \/ errCh # <<>>
    /\ startPc' = "gracefulStop"
    /\ quit' = TRUE
    /\ UNCHANGED <<startRet, servePc, serveErr, errCh, cancelled, errSent,
                   errRead>>
    /\ UNCHANGED <<config, handlers, security>>

\* Start, lines 91-93: <-ctx.Done() returns once the context is cancelled;
\* srv.GracefulStop() begins: the server accepts no new request.
CtxDone ==
    /\ startPc = "waitCtx"
    /\ cancelled
    /\ startPc' = "gracefulStop"
    /\ quit' = TRUE
    /\ UNCHANGED <<startRet, servePc, serveErr, errCh, cancelled, errSent,
                   errRead>>
    /\ UNCHANGED <<config, handlers, security>>

\* Mutant: the stop does not wait for the handlers (srv.Stop()).
StopAtOnce ==
    /\ startPc = "gracefulStop"
    /\ startPc' = "recvErr"
    /\ UNCHANGED <<startRet, servePc, serveErr, errCh, cancelled, quit,
                   errSent, errRead>>
    /\ UNCHANGED <<config, handlers, security>>

\* Start, line 93: srv.GracefulStop() returns when every handler has returned.
GracefulStop ==
    /\ startPc = "gracefulStop"
    /\ Drained
    /\ startPc' = "recvErr"
    /\ UNCHANGED <<startRet, servePc, serveErr, errCh, cancelled, quit,
                   errSent, errRead>>
    /\ UNCHANGED <<config, handlers, security>>

\* Start, line 94: return <-errCh.  A receive from an empty channel blocks.
RecvErr ==
    /\ startPc = "recvErr"
    /\ errCh # <<>>
    /\ startRet' = <<Head(errCh)>>
    /\ errRead' = Append(errRead, Head(errCh))
    /\ errCh' = Tail(errCh)
    /\ startPc' = "returned"
    /\ UNCHANGED <<servePc, serveErr, cancelled, quit, errSent>>
    /\ UNCHANGED <<config, handlers, security>>

\* A handler of the server Start runs: a request is accepted only once the
\* server serves and until it is told to stop.
Served(r, env) ==
    /\ pc[r] = "idle" => servePc \notin {"notStarted", "spawned"} /\ ~quit
    /\ Handler(r, env)

\* SpecStart: Start from its call to its return, with MaxReq handlers, one
\* configuration, one request content and one answer of each collaborator.
StartAnswers ==
    [requests |->
        {q \in ConcurrentRequests :
            /\ q.TokenValidator = Kind("KUBERNETES")
            /\ q.Id = "myapp"
            /\ q.CertificateSigningRequest.pem},
     trustDomains |-> {[name |-> "public"]},
     chains |-> {<<[NotAfter |-> 1]>>},
     signCauses |-> {"ca: issuer key unavailable"},
     encodeCauses |-> {"pem: write failed"}]

InitStart ==
    /\ InitHandlers(ConcurrentConfigs)
    /\ startPc = "listen"
    /\ startRet = <<>>
    /\ servePc = "notStarted"
    /\ serveErr = ""
    /\ errCh = <<>>
    /\ cancelled = FALSE
    /\ quit = FALSE
    /\ errSent = <<>>
    /\ errRead = <<>>
    /\ SidecarIdle

\* The steps of Start's own goroutine.
StartSteps == Listen \/ CtxDone \/ GracefulStop \/ RecvErr

\* The steps of the goroutine Start spawns that the runtime and gRPC take by
\* themselves (a failure of the listener is not one of them).
GoroutineSteps == Serve \/ ServeStops \/ SendErr

\* The steps of a handler once its request is accepted.
Pipeline(r) == pc[r] # "idle" /\ Handler(r, StartAnswers)

NextStart ==
    \/ Listen
    \/ Serve
    \/ ServeFails
    \/ ServeStops
    \/ SendErr
    \/ Cancel
    \/ CtxDone
    \/ GracefulStop
    \/ RecvErr
    \/ \E r \in Requests : Served(r, StartAnswers)

\* Every goroutine that can run is scheduled; nothing obliges the caller to
\* cancel, the listener to fail or a client to send a request.
Fairness ==
    /\ WF_vars(StartSteps)
    /\ WF_vars(GoroutineSteps)
    /\ \A r \in Requests : WF_vars(Pipeline(r))

SpecStart == InitStart /\ [][NextStart]_vars /\ Fairness

\* SpecCertChain: one call of GetCertChain in every environment.
InitCertChain ==
    /\ InitHandlers(ConcurrentConfigs)
    /\ Serving
    /\ environ \in [EnvVars -> EnvValues]
    /\ certChain = <<>>

NextCertChain == CallGetCertChain

SpecCertChain == InitCertChain /\ [][NextCertChain]_vars

\* ------------------------------------------------------------------- claims
\* The handlers that have entered signCertificate.
Entered(r) == pc[r] # "idle"

\* The handlers past validator resolution, successfully.
Resolved(r) == pc[r] \notin {"idle", "Received"} /\ failedAt[r] # "Received"

\* The handlers past Validate, successfully.
Authenticated(r) ==
    /\ Resolved(r)
    /\ pc[r] # "ValidatorResolved"
    /\ failedAt[r] # "ValidatorResolved"

\* The kind a request asks for, by the rule of the specification.
ExpectedKind(r) ==
    IF req[r].TokenValidator # UNKNOWN
    THEN req[r].TokenValidator
    ELSE defaultValidator

\* The CSR bytes pass all four checks.
SoundCSR(b) ==
    /\ b.pem
    /\ b.Type \in {"CERTIFICATE REQUEST", "CERTIFICATE"}
    /\ b.Bytes.parses
    /\ b.Bytes.signedBy = b.Bytes.PublicKey

\* C1: the effective kind is the requested kind unless that is UNKNOWN, and
\* then the default; resolution passes iff the effective kind is not UNKNOWN
\* and is registered; every other request fails with InvalidArgument (a
\* requested but unregistered kind does not fall back to the default).
C1_Resolution ==
    \A r \in Requests :
        pc[r] \notin {"idle", "Received"} =>
            /\ validator[r] = ExpectedKind(r)
            /\ Resolved(r) <=>
                 (ExpectedKind(r) # UNKNOWN /\ ExpectedKind(r) \in vals)
            /\ ~Resolved(r) =>
                 /\ pc[r] = "Failed"
                 /\ err[r] # Nil
                 /\ err[r][1].code = "InvalidArgument"

C1_Witness ==
    \E r \in Requests :
        /\ pc[r] = "Failed"
        /\ failedAt[r] = "Received"
        /\ req[r].TokenValidator # UNKNOWN
        /\ req[r].TokenValidator \notin vals
        /\ defaultValidator \in vals
        /\ defaultValidator # UNKNOWN
        /\ err[r][1].code = "InvalidArgument"

\* C2: the CA's SignIdentity is invoked for a request only after that request's
\* Validate succeeded and its CSR passed decoding, the block-type check,
\* parsing and signature verification; a request the validator rejected has
\* no CA invocation.
C2_SignOnlyAfterBothGates ==
    \A r \in Requests :
        /\ signCalls[r] # <<>> =>
             /\ Len(validateCalls[r]) >= 1
             /\ trustDomain[r] \in TrustDomains
             /\ failedAt[r] \notin {"Received", "ValidatorResolved", "Authenticated"}
             /\ csrSteps[r] = <<"decode", "type", "parse", "signature">>
             /\ SoundCSR(req[r].CertificateSigningRequest)
        /\ failedAt[r] = "ValidatorResolved" =>
             /\ err[r][1].code = "PermissionDenied"
             /\ Len(signCalls[r]) = 0

C2_Witness ==
    \E r \in Requests :
        /\ pc[r] = "Signed"
        /\ Len(signCalls[r]) = 1
        /\ req[r].CertificateSigningRequest.Type = "CERTIFICATE"

\* C3: a request whose effective kind is UNKNOWN or unregistered is rejected
\* before any other work: no Validate call, no CSR check, no CA invocation.
C3_RejectedBeforeWork ==
    \A r \in Requests :
        (Entered(r) /\ (ExpectedKind(r) = UNKNOWN \/ ExpectedKind(r) \notin vals)) =>
            /\ pc[r] \in {"Received", "Failed"}
            /\ validateCalls[r] = <<>>
            /\ csrSteps[r] = <<>>
            /\ signCalls[r] = <<>>
            /\ encodeCalls[r] = <<>>
            /\ csr[r] = NoCSR
            /\ pc[r] = "Failed" => failedAt[r] = "Received"

C3_Witness ==
    \E r \in Requests :
        /\ reply[r] # Nil
        /\ failedAt[r] = "Received"
        /\ ExpectedKind(r) # UNKNOWN
        /\ ExpectedKind(r) \notin vals
        /\ SoundCSR(req[r].CertificateSigningRequest)

\* The handlers whose request failed validator resolution.
ResolutionFailed(r) == pc[r] = "Failed" /\ failedAt[r] = "Received"

\* C4, as claimed: a request whose effective kind is UNKNOWN and one whose
\* effective kind is specified but unregistered get the same status code and
\* the same message.
C4_Indistinguishable ==
    \A r1, r2 \in Requests :
        (/\ ResolutionFailed(r1) /\ ExpectedKind(r1) = UNKNOWN
         /\ ResolutionFailed(r2) /\ ExpectedKind(r2) # UNKNOWN) =>
            err[r1] = err[r2]

\* C4, amended: the two failures get the same status code, InvalidArgument,
\* and two different fixed messages, one per failure.
C4_SameCodeOwnMessage ==
    \A r1, r2 \in Requests :
        (/\ ResolutionFailed(r1) /\ ExpectedKind(r1) = UNKNOWN
         /\ ResolutionFailed(r2) /\ ExpectedKind(r2) # UNKNOWN) =>
            /\ err[r1][1].code = "InvalidArgument"
            /\ err[r2][1].code = err[r1][1].code
            /\ err[r1][1].msg =
                 "a validator name must be specified in this environment"
            /\ err[r2][1].msg = "the requested validator is not enabled"

C4_Witness ==
    \E r1, r2 \in Requests :
        /\ ResolutionFailed(r1) /\ ExpectedKind(r1) = UNKNOWN
        /\ ResolutionFailed(r2) /\ ExpectedKind(r2) # UNKNOWN
        /\ ExpectedKind(r2) \notin vals
        /\ reply[r1] # Nil
        /\ reply[r2] # Nil

\* C5: a request that passes validator resolution has Validate called exactly
\* once, on the validator of its effective kind and on no other; when Validate
\* returns an error the request ends with PermissionDenied, with no second
\* call, no other validator tried and no CSR validation.
C5_ValidateOnce ==
    \A r \in Requests :
        /\ (~Resolved(r) \/ pc[r] = "ValidatorResolved") => validateCalls[r] = <<>>
        /\ (Resolved(r) /\ pc[r] # "ValidatorResolved") =>
             /\ validateCalls[r] = <<ExpectedKind(r)>>
             /\ ExpectedKind(r) \in vals
        /\ failedAt[r] = "ValidatorResolved" =>
             /\ pc[r] = "Failed"
             /\ err[r][1].code = "PermissionDenied"
             /\ err[r][1].msg \in ValidateErrors
             /\ trustDomain[r] = NoTrustDomain
             /\ csrSteps[r] = <<>>
             /\ signCalls[r] = <<>>

C5_Witness ==
    \E r \in Requests :
        /\ failedAt[r] = "ValidatorResolved"
        /\ reply[r] # Nil
        /\ defaultValidator \in vals \ {UNKNOWN, validator[r]}
        /\ Len(validateCalls[r]) = 1

\* C6: for an authenticated request the CSR gate passes iff the bytes decode to
\* a PEM block of type CERTIFICATE REQUEST or CERTIFICATE that parses as
\* PKCS#10 and whose self-signature verifies; in each failing case the result
\* is InvalidArgument and the CA is never invoked.
C6_CSRGate ==
    \A r \in Requests :
        (Authenticated(r) /\ pc[r] # "Authenticated") =>
            LET b == req[r].CertificateSigningRequest IN
            /\ (failedAt[r] # "Authenticated") <=> SoundCSR(b)
            /\ ~SoundCSR(b) =>
                 /\ pc[r] = "Failed"
                 /\ err[r][1].code = "InvalidArgument"
                 /\ signCalls[r] = <<>>
                 /\ encodeCalls[r] = <<>>
            /\ Len(csrSteps[r]) =
                 (IF ~b.pem THEN 1
                  ELSE IF b.Type \notin {"CERTIFICATE REQUEST", "CERTIFICATE"} THEN 2
                  ELSE IF ~b.Bytes.parses THEN 3
                  ELSE 4)

C6_Witness ==
    \E r \in Requests :
        /\ failedAt[r] = "Authenticated"
        /\ req[r].CertificateSigningRequest.Bytes.parses
        /\ req[r].CertificateSigningRequest.Type = "CERTIFICATE REQUEST"
        /\ err[r][1].msg = "invalid signature"
        /\ reply[r] # Nil

\* The handlers past SAN derivation.
IdentityDerived(r) ==
    /\ Authenticated(r)
    /\ pc[r] \notin {"Authenticated", "CSRValidated"}
    /\ failedAt[r] # "Authenticated"

\* C7: the SAN list is a function of (namespace, workloadID, currentNamespace)
\* with exactly one entry, chosen by first match: the injector service name,
\* the webhook service name, else <workloadID>.<namespace>.svc.cluster.local
\* (also for the two reserved IDs outside the current namespace).
C7_SingleSAN ==
    \A r \in Requests :
        IF IdentityDerived(r)
        THEN LET ns == req[r].Namespace
                 id == req[r].Id
             IN  /\ Len(dns[r]) = 1
                 /\ dns[r][1] =
                      CASE ns = currentNamespace /\ id = "dapr-injector" ->
                             "dapr-sidecar-injector." \o ns \o ".svc"
                        [] ns = currentNamespace /\ id = "dapr-operator" ->
                             "dapr-webhook." \o ns \o ".svc"
                        [] OTHER -> id \o "." \o ns \o ".svc.cluster.local"
                 /\ \A i \in DOMAIN signCalls[r] : signCalls[r][i].DNS = dns[r]
        ELSE dns[r] = <<>>

C7_Witness ==
    \E r \in Requests :
        /\ pc[r] = "Signed"
        /\ req[r].Id = "dapr-operator"
        /\ req[r].Namespace = "default"
        /\ currentNamespace = "dapr-system"
        /\ dns[r] = <<"dapr-operator.default.svc.cluster.local">>

\* C8: in every successful response the CA's chain is non-empty and validUntil
\* is the NotAfter of chain[0], whatever the chain's length; no request indexes
\* chain[0] of an empty chain.
C8_ValidUntilOfLeaf ==
    \A r \in Requests :
        /\ pc[r] # "Panicked"
        /\ pc[r] \in {"Encoded", "Responded"} => Len(chain[r]) >= 1
        /\ pc[r] = "Responded" =>
             /\ resp[r] # Nil
             /\ resp[r][1].ValidUntil = [seconds |-> Head(chain[r]).NotAfter]
        /\ (reply[r] # Nil /\ reply[r][1].resp # Nil) =>
             /\ reply[r][1].resp[1].ValidUntil = [seconds |-> Head(chain[r]).NotAfter]
             /\ Len(reply[r][1].resp[1].WorkloadCertificate) = Len(chain[r])

C8_Witness ==
    \E r \in Requests :
        /\ reply[r] # Nil
        /\ reply[r][1].resp # Nil
        /\ Len(chain[r]) = MaxChain
        /\ chain[r][1].NotAfter # chain[r][Len(chain[r])].NotAfter

\* C9: when the CA's SignIdentity fails the caller gets status Internal and a
\* nil response: no chain bytes, trust anchor or validUntil, and the chain is
\* never encoded.
C9_SignFailure ==
    \A r \in Requests :
        failedAt[r] = "IdentityResolved" =>
            /\ pc[r] = "Failed"
            /\ err[r] = Some(Status("Internal", "failed to sign certificate"))
            /\ resp[r] = Nil
            /\ chain[r] = <<>>
            /\ chainPEM[r] = <<>>
            /\ encodeCalls[r] = <<>>
            /\ reply[r] # Nil =>
                 /\ reply[r][1].resp = Nil
                 /\ reply[r][1].err = err[r]

C9_Witness ==
    \E r \in Requests :
        /\ failedAt[r] = "IdentityResolved"
        /\ Len(signCalls[r]) = 1
        /\ reply[r] # Nil
        /\ reply[r][1].err[1].code = "Internal"

\* The handlers between SignCertificate's entry and its return.
InFlight == {r \in Requests : pc[r] # "idle" /\ reply[r] = Nil}

RECURSIVE SumOver(_, _)
SumOver(f, S) ==
    IF S = {} THEN 0
    ELSE LET x == CHOOSE y \in S : TRUE IN f[x] + SumOver(f, S \ {x})

TotalFailed == SumOver(failed, DOMAIN failed)

\* C10: each SignCertificate invocation counts 'received' once on entry and
\* exactly one of 'succeeded' and 'failed' once on exit, 'succeeded' iff a
\* response is returned; so under any interleaving
\* received = succeeded + failed + (requests in flight).
C10_CounterBalance ==
    /\ received = succeeded + TotalFailed + Cardinality(InFlight)
    /\ received = Cardinality({r \in Requests : pc[r] # "idle"})
    /\ succeeded =
         Cardinality({r \in Requests : reply[r] # Nil /\ reply[r][1].resp # Nil})
    /\ TotalFailed =
         Cardinality({r \in Requests : reply[r] # Nil /\ reply[r][1].err # Nil})
    /\ \A r \in Requests :
         reply[r] # Nil => (reply[r][1].resp = Nil <=> reply[r][1].err # Nil)

C10_Witness ==
    /\ Cardinality(InFlight) = 1
    /\ succeeded + TotalFailed = MaxReq - 1
    /\ TotalFailed >= 1
    /\ received = MaxReq

\* The handlers whose SignCertificate returned an error.
ReturnedFailed == {r \in Requests : reply[r] # Nil /\ reply[r][1].err # Nil}

\* C11: the failure counter is tagged by the stage the pipeline failed in, so
\* requests that failed in different stages are counted under different tags:
\* at least as many tags are in use as there are failing stages.
C11_TagsIdentifyStage ==
    Cardinality({t \in Tags : failed[t] > 0}) >=
        Cardinality({failedAt[r] : r \in ReturnedFailed})

\* The order of the pipeline, and the steps a handler may take in it: into
\* the first state, to the next state, or from a state before Responded into
\* Failed.
C12_Order ==
    <<"Received", "ValidatorResolved", "Authenticated", "CSRValidated",
      "IdentityResolved", "Signed", "Encoded", "Responded">>

C12_Steps ==
    {<<"idle", C12_Order[1]>>}
    \cup {<<C12_Order[i], C12_Order[i + 1]>> : i \in 1 .. (Len(C12_Order) - 1)}
    \cup {<<C12_Order[i], "Failed">> : i \in 1 .. (Len(C12_Order) - 1)}

\* C12: a request moves through the pipeline states strictly in order, with no
\* state skipped or revisited; every stage (Validate, the CSR checks,
\* SignIdentity, the encoding) runs at most once per request; Responded and
\* Failed are absorbing.
C12_StrictOrder ==
    /\ [][\A r \in Requests :
            /\ pc'[r] # pc[r] => <<pc[r], pc'[r]>> \in C12_Steps
            /\ pc[r] \in {"Responded", "Failed"} =>
                 /\ pc'[r] = pc[r]
                 /\ resp'[r] = resp[r]
                 /\ err'[r] = err[r]]_vars
    /\ [](\A r \in Requests :
            /\ Len(validateCalls[r]) <= 1
            /\ Len(signCalls[r]) <= 1
            /\ Len(encodeCalls[r]) <= 1
            /\ Len(csrSteps[r]) <= 4
            /\ \A i, j \in DOMAIN csrSteps[r] :
                 csrSteps[r][i] = csrSteps[r][j] => i = j)

C12_Witness ==
    \E r \in Requests :
        /\ pc[r] = "Responded"
        /\ reply[r] # Nil
        /\ Len(validateCalls[r]) = 1
        /\ Len(signCalls[r]) = 1
        /\ Len(encodeCalls[r]) = 1
        /\ Len(csrSteps[r]) = 4

\* A handler has a step into Failed.
CanFail(r) == ENABLED (Handler(r, AllAnswers) /\ pc'[r] = "Failed")

\* C13, as claimed, for the states whose next stage does not depend on the
\* request's contents: a handler in ValidatorResolved, CSRValidated,
\* IdentityResolved, Signed or Encoded has a step into Failed.
C13_FailedFromEveryState ==
    \A r \in Requests :
        pc[r] \in {"ValidatorResolved", "CSRValidated", "IdentityResolved",
                   "Signed", "Encoded"} => CanFail(r)

\* C13, amended: the steps into Failed leave Received, ValidatorResolved,
\* Authenticated, IdentityResolved and Signed only; a handler in
\* ValidatorResolved, IdentityResolved or Signed always has one, a handler in
\* CSRValidated or Encoded never has (SAN derivation and the assembly of the
\* response cannot fail).
C13_FailedFromFiveStates ==
    /\ [][\A r \in Requests :
            (pc'[r] = "Failed" /\ pc[r] # "Failed") =>
                /\ pc[r] \in {"Received", "ValidatorResolved", "Authenticated",
                              "IdentityResolved", "Signed"}
                /\ failedAt'[r] = pc[r]]_vars
    /\ [](\A r \in Requests :
            /\ pc[r] \in {"ValidatorResolved", "IdentityResolved", "Signed"} =>
                 CanFail(r)
            /\ pc[r] \in {"CSRValidated", "Encoded"} => ~CanFail(r)
            /\ failedAt[r] \in {"", "Received", "ValidatorResolved",
                                "Authenticated", "IdentityResolved", "Signed"})

C13_Witness ==
    \E r \in Requests :
        /\ pc[r] = "Failed"
        /\ failedAt[r] = "Signed"
        /\ Len(encodeCalls[r]) = 1

\* C14: the signing request handed to the CA carries the trust domain that this
\* request's Validate returned, and the namespace, workload ID, SAN list and
\* public key of the same request, under any interleaving of handlers.
C14_OwnIdentity ==
    \A r \in Requests :
        \A i \in DOMAIN signCalls[r] :
            /\ trustDomain[r] \in TrustDomains
            /\ signCalls[r][i].TrustDomain = trustDomain[r].name
            /\ signCalls[r][i].Namespace = req[r].Namespace
            /\ signCalls[r][i].AppID = req[r].Id
            /\ signCalls[r][i].DNS = dns[r]
            /\ signCalls[r][i].PublicKey =
                 req[r].CertificateSigningRequest.Bytes.PublicKey

C14_Witness ==
    \E r1, r2 \in Requests :
        /\ Len(signCalls[r1]) = 1
        /\ Len(signCalls[r2]) = 1
        /\ signCalls[r1][1].TrustDomain # signCalls[r2][1].TrustDomain
        /\ signCalls[r1][1].Namespace # signCalls[r2][1].Namespace
        /\ signCalls[r1][1].AppID # signCalls[r2][1].AppID

\* C15: the status returned for a failure of the CA, of the chain encoder and
\* of the CSR's signature check is a fixed code and message whatever the
\* underlying cause (the CA's or the encoder's error, the key that signed the
\* CSR), so two requests that differ only in the cause get the same status.
C15_FixedMessages ==
    \A r \in Requests :
        /\ failedAt[r] = "IdentityResolved" =>
             /\ logged[r] \in SignCauses
             /\ err[r] = Some(Status("Internal", "failed to sign certificate"))
        /\ failedAt[r] = "Signed" =>
             /\ logged[r] \in EncodeCauses
             /\ err[r] =
                  Some(Status("Internal", "failed to encode certificate chain"))
        /\ (/\ failedAt[r] = "Authenticated"
            /\ req[r].CertificateSigningRequest.pem
            /\ req[r].CertificateSigningRequest.Type \in AcceptedBlockTypes
            /\ req[r].CertificateSigningRequest.Bytes.parses) =>
             err[r] = Some(Status("InvalidArgument", "invalid signature"))
        /\ reply[r] # Nil => reply[r][1].err = err[r]

C15_Witness ==
    \E r \in Requests :
        /\ failedAt[r] = "IdentityResolved"
        /\ logged[r] = "ca: context deadline exceeded"
        /\ reply[r] # Nil
        /\ reply[r][1].err[1].msg = "failed to sign certificate"

\* Start got past the bind, so that there is a server and a goroutine.
Bound == servePc # "notStarted"

\* C16: after the cancellation Start stops the server gracefully: from then on
\* no request is accepted, Start does not get past the stop (and so does not
\* return) while a handler is short of Responded or Failed or has not
\* returned, and once the cancellation has fired and every handler is idle or
\* terminal, Start eventually returns.
C16_DrainBeforeReturn ==
    /\ [](startPc \in {"recvErr", "returned"} /\ Bound =>
            /\ cancelled
            /\ quit
            /\ Drained
            /\ \A r \in Requests : pc[r] \in {"idle", "Responded", "Failed"})
    /\ [][\A r \in Requests : quit /\ pc[r] = "idle" => pc'[r] = "idle"]_vars
    /\ (cancelled /\ \A r \in Requests :
                        pc[r] \in {"idle", "Responded", "Failed"})
          ~> (startPc = "returned")

C16_Witness ==
    /\ startPc = "gracefulStop"
    /\ cancelled
    /\ \E r \in Requests : pc[r] = "Signed"
    /\ \E r \in Requests : pc[r] = "Failed" /\ reply[r] = Nil

\* C17: after a successful bind at most one value is ever sent on errCh and at
\* most one received; the goroutine's send finds room in the channel, so the
\* goroutine ends once Serve has returned; Start's receive gets a value once it
\* is reached; when Start has returned exactly one value was sent, the same one
\* was received, and it is what Start returns: Serve's error wrapped, or nil.
C17_SingleHandoff ==
    /\ [](/\ Len(errSent) <= 1
          /\ Len(errRead) <= 1
          /\ Len(errCh) <= ErrChCap
          /\ servePc = "serveReturned" => Len(errCh) < ErrChCap
          /\ servePc = "done" => errSent = <<ServeResult(serveErr)>>
          /\ servePc # "done" => errSent = <<>>
          /\ startPc = "returned" /\ Bound =>
                /\ servePc = "done"
                /\ errRead = errSent
                /\ errCh = <<>>
                /\ startRet = <<ServeResult(serveErr)>>
          /\ startPc # "returned" => errRead = <<>>)
    /\ (servePc = "serveReturned") ~> (servePc = "done")
    /\ (cancelled /\ Bound) ~> (servePc = "done")
    /\ (startPc = "recvErr") ~> (startPc = "returned")

C17_Witness ==
    /\ startPc = "returned"
    /\ serveErr = NoError
    /\ errSent = <<NoError>>
    /\ errRead = <<NoError>>
    /\ startRet = <<NoError>>

\* C18 as stated: once the serve loop has failed on its own and its result is
\* in the channel, Start can go on to report it although the context is not
\* cancelled.
C18_ReportsWithoutCancellation ==
    (serveErr \in AcceptErrors /\ servePc = "done" /\ ~cancelled) =>
        startPc = "returned" \/ ENABLED StartSteps

\* C18, amended: a failure of the serve loop becomes Start's return value, but
\* Start stays at <-ctx.Done() until the context is cancelled; it returns the
\* failure, wrapped, after the cancellation, and then it eventually does.
C18_ReportedAfterCancellation ==
    /\ [](startPc = "returned" /\ Bound => cancelled)
    /\ [](serveErr \in AcceptErrors /\ ~cancelled => startPc = "waitCtx")
    /\ [](serveErr \in AcceptErrors /\ startPc = "returned" =>
             startRet = <<"failed to serve: " \o serveErr>>)
    /\ (serveErr \in AcceptErrors /\ cancelled) ~> (startPc = "returned")

C18_Witness ==
    /\ startPc = "returned"
    /\ cancelled
    /\ serveErr \in AcceptErrors
    /\ startRet = <<"failed to serve: accept: too many open files">>

\* C19: the status of a failed request is that of the earliest stage that
\* fails, in the order validator resolution, authentication, CSR validation,
\* signing, encoding: a kind that does not resolve gives InvalidArgument before
\* the token or the CSR is looked at; a rejected token gives PermissionDenied
\* whatever the CSR; a bad CSR gives InvalidArgument only behind an accepted
\* token and never reaches the CA; the CA and the encoder give Internal.  The
\* code is always one of the three.
C19_EarliestStageDecides ==
    \A r \in Requests :
        err[r] # Nil =>
            LET code == err[r][1].code
                bytes == req[r].CertificateSigningRequest
                unresolved == ExpectedKind(r) = UNKNOWN \/ ExpectedKind(r) \notin vals
            IN  /\ code \in {"InvalidArgument", "PermissionDenied", "Internal"}
                /\ failedAt[r] \in {"Received", "ValidatorResolved",
                                    "Authenticated", "IdentityResolved", "Signed"}
                /\ unresolved <=> failedAt[r] = "Received"
                /\ failedAt[r] = "Received" =>
                     /\ code = "InvalidArgument"
                     /\ validateCalls[r] = <<>>
                     /\ csrSteps[r] = <<>>
                /\ failedAt[r] = "ValidatorResolved" =>
                     /\ code = "PermissionDenied"
                     /\ Len(validateCalls[r]) = 1
                     /\ csrSteps[r] = <<>>
                /\ failedAt[r] = "Authenticated" =>
                     /\ code = "InvalidArgument"
                     /\ ~SoundCSR(bytes)
                     /\ Len(validateCalls[r]) = 1
                     /\ signCalls[r] = <<>>
                /\ ~SoundCSR(bytes) =>
                     failedAt[r] \in {"Received", "ValidatorResolved",
                                      "Authenticated"}
                /\ failedAt[r] = "IdentityResolved" =>
                     /\ code = "Internal"
                     /\ Len(signCalls[r]) = 1
                     /\ encodeCalls[r] = <<>>
                /\ failedAt[r] = "Signed" =>
                     /\ code = "Internal"
                     /\ Len(encodeCalls[r]) = 1

C19_Witness ==
    \E r \in Requests :
        /\ failedAt[r] = "ValidatorResolved"
        /\ ~req[r].CertificateSigningRequest.pem
        /\ reply[r] # Nil
        /\ reply[r][1].err[1].code = "PermissionDenied"

\* C20, as claimed: GetCertChain returns an error and no chain whenever one of
\* the three variables is empty, and otherwise no error and the chain made of
\* the three variables' values.
C20_ErrorIffAnyEmpty ==
    certChain # <<>> =>
        LET res == certChain[1] IN
        IF \E v \in EnvVars : environ[v] = ""
        THEN res.err # "nil" /\ res.chain = <<>>
        ELSE /\ res.err = "nil"
             /\ res.chain = <<[RootCA |-> environ[TrustAnchorsEnvVar],
                               Cert |-> environ[CertChainEnvVar],
                               Key |-> environ[CertKeyEnvVar]]>>

====
